---- MODULE Spec2Model ----
(***************************************************************************)
(* The receiving side of examples/blanke_ark.rs: the task spawned by       *)
(* main_blanke_ark that reads websocket frames, decodes each binary frame  *)
(* into a blanke_ark_lib Message and turns it into framebuffer calls.      *)
(*                                                                         *)
(* f32 values (coordinates, widths) are modelled as exact multiples of     *)
(* 1/F32Den, held as the integer numerator; NaN and the infinities are not *)
(* modelled.  The framebuffer is the external renderer: the model records  *)
(* the calls made on it.                                                   *)
(***************************************************************************)
EXTENDS Integers, Sequences, FiniteSets

\* ------------------------------------------------------------------ bounds
NumIds == 2      \* number of distinct PathIds on the wire
MaxStroke == 4   \* longest streamed stroke (in step frames) the history follows
F32Den == 2      \* resolution of the modelled f32 values: multiples of 1/F32Den

\* ------------------------------------------------------- program constants
chunk_size == 1404

\* ------------------------------------------------------------ Option<T>
None == [some |-> FALSE]
Some(v) == [some |-> TRUE, value |-> v]

\* ------------------------------------------------------ message.rs values
\* the f32 value whole + frac/F32Den
F32(whole, frac) == whole * F32Den + frac

\* GlobalCoordinates { x: f32, y: f32 }
GlobalCoordinates(x, y) == [x |-> x, y |-> y]

\* GlobalCoordinates at whole canvas units, as in From<(f32, f32)>
G(x, y) == GlobalCoordinates(F32(x, 0), F32(y, 0))

\* ChunkCoordinates { x: i32, y: i32 }
ChunkCoordinates(x, y) == [x |-> x, y |-> y]

\* Color::RGB { r, g, b }
RGB(r, g, b) == [r |-> r, g |-> g, b |-> b]

Path(points, width, color) ==
    [tag |-> "Path", points |-> points, width |-> width, color |-> color]

PathStepDraw(id, point, width, color) ==
    [tag |-> "PathStepAction", action |-> "Draw", id |-> id, point |-> point,
     width |-> width, color |-> color]

PathStepEnd(id) == [tag |-> "PathStepAction", action |-> "End", id |-> id]

Line(from, to, width, color) ==
    [tag |-> "Line", from |-> from, to |-> to, width |-> width, color |-> color]

Dot(coordinates, diam, color) ==
    [tag |-> "Dot", coordinates |-> coordinates, diam |-> diam, color |-> color]

CompositeDrawMessage(msgs) == [tag |-> "Composite", msgs |-> msgs]

Subscription(chunks) == [chunk_coordinates |-> chunks]

\* enum Message { Draw(DrawMessage), Subscribe(Subscription) }: the variant
\* index is the discriminant postcard writes first
MessageDraw(dm) == [discriminant |-> 0, body |-> dm]
MessageSubscribe(s) == [discriminant |-> 1, body |-> s]

\* postcard::from_bytes::<Message>: Ok for a known discriminant, Err otherwise
from_bytes(data) ==
    IF data.discriminant = 0
    THEN [ok |-> TRUE, variant |-> "Draw", value |-> data.body]
    ELSE IF data.discriminant = 1
    THEN [ok |-> TRUE, variant |-> "Subscribe", value |-> data.body]
    ELSE [ok |-> FALSE]

\* --------------------------------------------------------- numeric casts
\* `(v * chunk_size) as i32`: the product truncated toward zero
ToPixel(v) ==
    IF v >= 0 THEN (v * chunk_size) \div F32Den
    ELSE -(((-v) * chunk_size) \div F32Den)

\* `width as u32`: truncated toward zero, negative values saturate to 0
AsU32(w) == IF w <= 0 THEN 0 ELSE w \div F32Den

\* cgmath::Point2<i32> built from a GlobalCoordinates
Point2(g) == [x |-> ToPixel(g.x), y |-> ToPixel(g.y)]

\* ------------------------------------------------------ framebuffer calls
\* framebuffer.draw_line(start, end, width, color::BLACK)
FbDrawLine(start, end, width) ==
    [call |-> "draw_line", start |-> start, end |-> end, width |-> width,
     color |-> "BLACK"]

\* framebuffer.partial_refresh(&region, ...) on the region a draw_line returned
FbRefreshRegion(start, end, width) ==
    [call |-> "partial_refresh", rect |-> "region", start |-> start,
     end |-> end, width |-> width]

\* framebuffer.partial_refresh(&full screen rect, ...)
FbRefreshScreen == [call |-> "partial_refresh", rect |-> "screen"]

RECURSIVE Concat(_)
\* the calls of several steps, in order
Concat(seqs) == IF seqs = <<>> THEN <<>> ELSE Head(seqs) \o Concat(Tail(seqs))

\* draw_path over chunks(2) instead of windows(2): every second pair is skipped
draw_path_chunks(path) ==
    [i \in 1..(Len(path.points) \div 2) |->
        FbDrawLine(Point2(path.points[2 * i - 1]), Point2(path.points[2 * i]),
                   AsU32(path.width))]

\* fn draw_path: one framebuffer.draw_line per window of two points, no refresh
draw_path(path) ==
    [i \in 1..(Len(path.points) - 1) |->
        FbDrawLine(Point2(path.points[i]), Point2(path.points[i + 1]),
                   AsU32(path.width))]

\* fn draw_line: framebuffer.draw_line, then a partial refresh of its region
draw_line(from, to, width) ==
    << FbDrawLine(Point2(from), Point2(to), AsU32(width)),
       FbRefreshRegion(Point2(from), Point2(to), AsU32(width)) >>

\* fn refresh: a partial refresh of the whole screen
refresh == << FbRefreshScreen >>

\* ------------------------------------------------- the read task's handlers
\* the Path arm drawing a segment at every point, the last one onto itself
PathOps_every_point(path) ==
    [i \in 1..Len(path.points) |->
        FbDrawLine(Point2(path.points[i]),
                   Point2(path.points[IF i < Len(path.points) THEN i + 1 ELSE i]),
                   AsU32(path.width))] \o refresh

\* DrawMessage::Path arm
PathOps(path) == draw_path(path) \o refresh

\* the closure run for each message of a Composite: Path and Line are drawn,
\* any other kind is logged and the closure returns
CompositeItemOps(msg) ==
    IF msg.tag = "Path" THEN draw_path(msg)
    ELSE IF msg.tag = "Line" THEN draw_line(msg.from, msg.to, msg.width)
    ELSE <<>>

\* DrawMessage::Composite arm: for_each over the messages, then one refresh
CompositeOps(composite) ==
    Concat([i \in 1..Len(composite.msgs) |-> CompositeItemOps(composite.msgs[i])])
        \o refresh

\* the Draw arm with the comparison of the ids inverted
StepDrawOps_inverted(step_draw, last_coords, last_id) ==
    IF last_coords.some /\ last_id.some /\ last_id.value # step_draw.id
    THEN draw_line(last_coords.value, step_draw.point, step_draw.width)
    ELSE <<>>

\* the Draw arm without the comparison of the ids
StepDrawOps_any_id(step_draw, last_coords, last_id) ==
    IF last_coords.some
    THEN draw_line(last_coords.value, step_draw.point, step_draw.width)
    ELSE <<>>

\* PathStepAction::Draw arm, the nested `if let`s: a line from the last step's
\* point when there is one and the last step's id is this step's id
StepDrawOps(step_draw, last_coords, last_id) ==
    IF last_coords.some /\ last_id.some /\ last_id.value = step_draw.id
    THEN draw_line(last_coords.value, step_draw.point, step_draw.width)
    ELSE <<>>

\* DrawMessage::Line arm
LineOps(line) == draw_line(line.from, line.to, line.width)

\* ------------------------------------------------- what arrives on the wire
PathIds == 1..NumIds

Black == RGB(0, 0, 0)
Red == RGB(255, 0, 0)

\* the samples a streamed step can carry: a point with its width and color
StepSamples ==
    { [point |-> G(0, 0), width |-> F32(2, 0), color |-> Black],
      [point |-> G(1, 1), width |-> F32(3, 1), color |-> Red],
      [point |-> GlobalCoordinates(F32(2, 1), F32(0, 1)), width |-> F32(2, 0),
       color |-> Black] }

StepDraws ==
    { PathStepDraw(id, s.point, s.width, s.color) : id \in PathIds, s \in StepSamples }

StepEnds == { PathStepEnd(id) : id \in PathIds }

Paths ==
    { Path(<<>>, F32(2, 0), Black),
      Path(<< G(0, 0) >>, F32(2, 0), Black),
      Path(<< G(0, 0), G(1, 1) >>, F32(2, 0), Black),
      Path(<< G(0, 0), G(1, 1), GlobalCoordinates(F32(2, 1), F32(0, 1)) >>,
           F32(3, 1), Red),
      Path(<< G(1, 1), G(1, 1), G(0, 0), G(3, 3) >>, F32(2, 0), Black) }

Lines == { Line(G(2, 2), G(3, 3), F32(2, 0), Black),
           Line(G(1, 1), G(0, 0), F32(3, 1), Red) }

Dots == { Dot(G(1, 1), F32(3, 0), Black) }

Composites ==
    { CompositeDrawMessage(<<>>),
      CompositeDrawMessage(<< Path(<< G(0, 0), G(1, 1) >>, F32(2, 0), Black),
                              Line(G(2, 2), G(3, 3), F32(2, 0), Black) >>),
      CompositeDrawMessage(<< Path(<< G(0, 0), G(1, 1) >>, F32(2, 0), Black),
                              Path(<< G(2, 2), G(3, 3) >>, F32(2, 0), Black) >>),
      CompositeDrawMessage(<< Dot(G(1, 1), F32(3, 0), Black),
                              Line(G(2, 2), G(3, 3), F32(2, 0), Black) >>),
      CompositeDrawMessage(<< CompositeDrawMessage(
                                  << Line(G(2, 2), G(3, 3), F32(2, 0), Black) >>) >>),
      CompositeDrawMessage(<< PathStepDraw(1, G(1, 1), F32(3, 1), Red) >>) }

Subscriptions == { Subscription({ ChunkCoordinates(0, 0) }) }

\* an item of the websocket stream: Some(Ok(Message::Binary(data))),
\* Some(Ok(any other websocket message)), Some(Err(e))
Binary(data) == [ws |-> "Binary", data |-> data]
NonBinaryItems == { [ws |-> "Text"], [ws |-> "Err"] }

\* a binary frame whose first byte is no discriminant of Message
BadFrames == { Binary([discriminant |-> 2, body |-> Subscription({})]) }

\* no item read yet / the stream returned None
NoItem == [ws |-> "NotYet"]
StreamNone == [ws |-> "None"]

\* -------------------------------------------------------------- the state
VARIABLES
    maybe_last_step_coords,  \* blanke_ark.rs:91, Option<GlobalCoordinates>: point of
                             \* the last Draw step
    maybe_last_step_id,      \* blanke_ark.rs:92, Option<PathId>: id of the last Draw step
    task,                    \* blanke_ark.rs:93-170, the spawned read task:
                             \* "listening", "finished"
                             \* (stream ended), "returned" (early return),
                             \* "panicked" (unwrap on a decode error)
    item,                    \* blanke_ark.rs:95, the stream item the loop body ran on last
    ops,                     \* the framebuffer calls made while handling item
    pre,                     \* history: the two Options and anchor as they were
                             \* before item
    anchor,                  \* history: per PathId, the point of the most recent
                             \* handled Draw step with no End step for that id since
    stroke,                  \* history: the step frames of the stroke being streamed,
                             \* each with the calls it caused: it starts at a Draw
                             \* step whose id had no anchor and goes on while steps
                             \* of that id arrive back to back (at most MaxStroke)
    stream                   \* blanke_ark.rs:87, the inbound half of the websocket:
                             \* "open", or "closed" once it has no more items

\* the sending side of main_blanke_ark: the Subscribe sent after connecting,
\* the input event loop and the send tasks it spawns
VARIABLES
    main,                    \* blanke_ark.rs:171-193, main_blanke_ark: "subscribing",
                             \* "event_loop", or "panicked" (unwrap on the Subscribe)
    points,                  \* blanke_ark.rs:191, Vec<GlobalCoordinates>
    last_framebuffer_point,  \* blanke_ark.rs:192, Option<Point2<i32>>
    units,                   \* blanke_ark.rs:247-249, the spawned send tasks in spawn
                             \* order, each with its encoded frame and its position:
                             \* "spawned", "writing" (lock held, send in progress),
                             \* "sent", "failed" (unwrap on the send error)
    lock,                    \* blanke_ark.rs:190, the tokio Mutex around the sink:
                             \* 0 when free, else the index of the unit holding it
    wire,                    \* the frames fully written to the websocket sink, in order
    sink,                    \* blanke_ark.rs:87, the outbound half: "open" or "closed"
    event,                   \* the input event the event loop closure ran on last
    echo,                    \* the framebuffer calls made while handling event
    before,                  \* history: points and the number of units before event
    sampled,                 \* history: every pen position of a Draw event, in order
    acquired,                \* history: the units in the order they got the lock
    wrote                    \* history: the units in the order their frame was written

\* Subscription values and what is computed from them
VARIABLES
    subA, subB,              \* message.rs:176-179, two Subscription values
    diffs,                   \* the results of missing_from_other / missing_from_self
    encoded                  \* the postcard encodings of Subscribe(subA), Subscribe(subB)

\* the variables of the read task
rvars == << maybe_last_step_coords, maybe_last_step_id, task, item, ops, pre,
            anchor, stroke, stream >>

\* the variables of the sending side
svars == << main, points, last_framebuffer_point, units, lock, wire, sink, event,
            echo, before, sampled, acquired, wrote >>

\* the variables of the Subscription values
bvars == << subA, subB, diffs, encoded >>

vars == << rvars, svars, bvars >>

\* no input event handled yet
NoEvent == [input |-> "NotYet"]

\* the sending side once connect_async returned and the stream was split
SendInit ==
    /\ main = "subscribing"
    /\ points = <<>>
    /\ last_framebuffer_point = None
    /\ units = <<>>
    /\ lock = 0
    /\ wire = <<>>
    /\ sink = "open"
    /\ event = NoEvent
    /\ echo = <<>>
    /\ before = [points |-> <<>>, units |-> 0]
    /\ sampled = <<>>
    /\ acquired = <<>>
    /\ wrote = <<>>

\* no Subscription computed with
SubsIdle ==
    /\ subA = Subscription({})
    /\ subB = Subscription({})
    /\ diffs = None
    /\ encoded = None

\* the outcome of one pass through the loop body
Outcome(o, c, i, t) == [ops |-> o, coords |-> c, id |-> i, task |-> t]

\* PathStepAction arm: Draw draws from the last step and records this one; any
\* other action is logged and the task's async block returns
PathStepActionArm(step_action, c, i) ==
    IF step_action.action = "Draw"
    THEN Outcome(StepDrawOps(step_action, c, i), Some(step_action.point),
                 Some(step_action.id), "listening")
    ELSE Outcome(<<>>, c, i, "returned")

\* `match draw_message`
DrawArm(draw_message, c, i) ==
    IF draw_message.tag = "Path"
    THEN Outcome(PathOps(draw_message), c, i, "listening")
    ELSE IF draw_message.tag = "Composite"
    THEN Outcome(CompositeOps(draw_message), c, i, "listening")
    ELSE IF draw_message.tag = "PathStepAction"
    THEN PathStepActionArm(draw_message, c, i)
    ELSE IF draw_message.tag = "Line"
    THEN Outcome(LineOps(draw_message), c, i, "listening")
    ELSE Outcome(<<>>, c, i, "listening")

\* the body of `while let Some(msg) = read.next().await`
LoopBody(msg, c, i) ==
    IF msg.ws # "Binary" THEN Outcome(<<>>, c, i, "listening")
    ELSE LET message == from_bytes(msg.data) IN
         IF ~message.ok THEN Outcome(<<>>, c, i, "panicked")
         ELSE IF message.variant = "Subscribe"
         THEN Outcome(<<>>, c, i, "listening")
         ELSE DrawArm(message.value, c, i)

\* the step message a stream item carries, if it carries one
IsStep(msg) ==
    /\ msg.ws = "Binary"
    /\ from_bytes(msg.data).ok
    /\ from_bytes(msg.data).variant = "Draw"
    /\ from_bytes(msg.data).value.tag = "PathStepAction"
StepOf(msg) == from_bytes(msg.data).value

\* the history after the loop body ran on msg
AnchorAfter(msg) ==
    IF ~IsStep(msg) THEN anchor
    ELSE IF StepOf(msg).action = "Draw"
    THEN [anchor EXCEPT ![StepOf(msg).id] = Some(StepOf(msg).point)]
    ELSE [anchor EXCEPT ![StepOf(msg).id] = None]

StrokeAfter(msg, o) ==
    IF ~IsStep(msg) THEN <<>>
    ELSE LET step == StepOf(msg)
             entry == [step |-> step, ops |-> o]
             open == /\ stroke # <<>>
                     /\ Len(stroke) < MaxStroke
                     /\ stroke[1].step.id = step.id
                     /\ stroke[Len(stroke)].step.action = "Draw"
         IN  IF open THEN Append(stroke, entry)
             ELSE IF step.action = "Draw" /\ ~anchor[step.id].some
             THEN << entry >>
             ELSE <<>>

\* one iteration of the read loop on the stream item msg (the task is listening)
Recv(msg) ==
    /\ stream = "open"
    /\ UNCHANGED << stream, svars, bvars >>
    /\ LET r == LoopBody(msg, maybe_last_step_coords, maybe_last_step_id) IN
         /\ maybe_last_step_coords' = r.coords
         /\ maybe_last_step_id' = r.id
         /\ task' = r.task
         /\ ops' = r.ops
         /\ stroke' = StrokeAfter(msg, r.ops)
    /\ item' = msg
    /\ pre' = [coords |-> maybe_last_step_coords, id |-> maybe_last_step_id,
               anchor |-> anchor]
    /\ anchor' = AnchorAfter(msg)

ReadInit ==
    /\ maybe_last_step_coords = None
    /\ maybe_last_step_id = None
    /\ task = "listening"
    /\ item = NoItem
    /\ ops = <<>>
    /\ pre = [coords |-> None, id |-> None, anchor |-> [id \in PathIds |-> None]]
    /\ anchor = [id \in PathIds |-> None]
    /\ stroke = <<>>
    /\ stream = "open"

Init == ReadInit /\ SendInit /\ SubsIdle

RecvPath ==
    /\ task = "listening"
    /\ \E m \in Paths : Recv(Binary(MessageDraw(m)))
RecvComposite ==
    /\ task = "listening"
    /\ \E m \in Composites : Recv(Binary(MessageDraw(m)))
RecvStepDraw ==
    /\ task = "listening"
    /\ \E m \in StepDraws : Recv(Binary(MessageDraw(m)))
RecvStepEnd ==
    /\ task = "listening"
    /\ \E m \in StepEnds : Recv(Binary(MessageDraw(m)))
RecvLine ==
    /\ task = "listening"
    /\ \E m \in Lines : Recv(Binary(MessageDraw(m)))
RecvDot ==
    /\ task = "listening"
    /\ \E m \in Dots : Recv(Binary(MessageDraw(m)))
RecvSubscribe ==
    /\ task = "listening"
    /\ \E s \in Subscriptions : Recv(Binary(MessageSubscribe(s)))
RecvUndecodable ==
    /\ task = "listening"
    /\ \E msg \in BadFrames : Recv(msg)
RecvNonBinary ==
    /\ task = "listening"
    /\ \E msg \in NonBinaryItems : Recv(msg)

\* the peer or the transport closes the connection: no further item arrives
StreamClose ==
    /\ stream = "open"
    /\ stream' = "closed"
    /\ UNCHANGED << maybe_last_step_coords, maybe_last_step_id, task, item, ops,
                    pre, anchor, stroke, svars, bvars >>

\* the task once the while loop is left: it prints and completes
LoopExit_listen_on == "listening"

LoopExit == "finished"

\* read.next() returns None: the loop ends and the task finishes
StreamEnd ==
    /\ task = "listening"
    /\ stream = "closed"
    /\ task' = LoopExit
    /\ item' = StreamNone
    /\ ops' = <<>>
    /\ pre' = [coords |-> maybe_last_step_coords, id |-> maybe_last_step_id,
               anchor |-> anchor]
    /\ UNCHANGED << maybe_last_step_coords, maybe_last_step_id, anchor, stroke,
                    stream, svars, bvars >>

Next ==
    \/ RecvPath
    \/ RecvComposite
    \/ RecvStepDraw
    \/ RecvStepEnd
    \/ RecvLine
    \/ RecvDot
    \/ RecvSubscribe
    \/ RecvUndecodable
    \/ RecvNonBinary
    \/ StreamClose
    \/ StreamEnd

Spec == Init /\ [][Next]_vars

\* the read task is a spawned tokio task: the runtime keeps polling it, so once
\* read.next() can return None the loop is left
SpecClose == Spec /\ WF_vars(StreamEnd)

\* ------------------------------------------------------ the sending side
\* bounds of the sending side
MaxSamples == 3  \* pen Draw events in a run
MaxUnits == 2    \* send tasks spawned in a run

\* a pen position in framebuffer pixels (f32), jx/F32Den and jy/F32Den chunks
\* from the origin
PenAt(jx, jy) == [x |-> jx * chunk_size, y |-> jy * chunk_size]

PenPositions == { PenAt(1, 2), PenAt(2, 0) }

\* `position.x as i32`: truncated toward zero
AsI32(v) == IF v >= 0 THEN v \div F32Den ELSE -((-v) \div F32Den)

\* `position.x as f32 / chunk_size`
DivChunkSize(v) == v \div chunk_size

\* Point2 { x: position.x as i32, y: position.y as i32 }
EndPoint(position) == [x |-> AsI32(position.x), y |-> AsI32(position.y)]

\* GlobalCoordinates { x: position.x / chunk_size, y: position.y / chunk_size }
CurrentPoint(position) ==
    GlobalCoordinates(DivChunkSize(position.x), DivChunkSize(position.y))

\* the input events: a Wacom Draw, any other Wacom event, any other input event
WacomDraw(position) == [input |-> "WacomDraw", position |-> position]
WacomOther == [input |-> "WacomOther"]
OtherInput == [input |-> "Other"]

\* postcard::to_allocvec(&Message::Subscribe(Subscription::from((0, 0))))
SubscribeFrame == Binary(MessageSubscribe(Subscription({ ChunkCoordinates(0, 0) })))

\* Message::Binary(postcard::to_allocvec(&Message::Draw(DrawMessage::Path(..))))
\* with the buffered points, color rgb(0,0,0) and width 2.0
PathFrame(pts) == Binary(MessageDraw(Path(pts, F32(2, 0), RGB(0, 0, 0))))

\* the Subscribe never reaching the sink
AfterSubscribe_not_sent(w) == w

\* write.send(Subscribe).await returning Ok: the frame is on the wire
AfterSubscribe(w) == Append(w, SubscribeFrame)

\* main sends the Subscribe on the bare sink and unwraps the result
MainSubscribe ==
    /\ main = "subscribing"
    /\ IF sink = "open"
       THEN main' = "event_loop" /\ wire' = AfterSubscribe(wire)
       ELSE main' = "panicked" /\ wire' = wire
    /\ UNCHANGED << points, last_framebuffer_point, units, lock, sink, event, echo,
                    before, sampled, acquired, wrote, rvars, bvars >>

\* the local echo of a Draw event: a line from the last framebuffer point
EchoOps(last, end) ==
    IF last.some
    THEN << FbDrawLine(last.value, end, 2), FbRefreshRegion(last.value, end, 2) >>
    ELSE <<>>

\* WacomEvent::Draw: echo the segment locally and buffer the point
PenDraw ==
    /\ main = "event_loop"
    /\ Len(sampled) < MaxSamples
    /\ Len(units) < MaxUnits
    /\ \E position \in PenPositions :
         /\ echo' = EchoOps(last_framebuffer_point, EndPoint(position))
         /\ last_framebuffer_point' = Some(EndPoint(position))
         /\ points' = Append(points, CurrentPoint(position))
         /\ event' = WacomDraw(position)
         /\ sampled' = Append(sampled, position)
    /\ before' = [points |-> points, units |-> Len(units)]
    /\ UNCHANGED << main, units, lock, wire, sink, acquired, wrote, rvars, bvars >>

\* the last framebuffer point left as it is when the gesture ends
LastPointAfterGesture_kept(last) == last

\* `last_framebuffer_point = None` in the arm of the other Wacom events
\* (`last_point = None` in main_simple)
LastPointAfterGesture(last) == None

\* the buffer left as it is when the gesture ends
BufferAfterGesture_kept(pts) == pts

\* `points = vec![]` at the end of the arm of the other Wacom events
BufferAfterGesture(pts) == <<>>

\* tokio::spawn of a send task when the buffer holds points
UnitsAfterGesture(us, pts) ==
    IF Len(pts) > 0
    THEN Append(us, [frame |-> PathFrame(pts), pc |-> "spawned"])
    ELSE us

\* any other Wacom event: the gesture ended
PenOther ==
    /\ main = "event_loop"
    /\ last_framebuffer_point' = LastPointAfterGesture(last_framebuffer_point)
    /\ units' = UnitsAfterGesture(units, points)
    /\ points' = BufferAfterGesture(points)
    /\ event' = WacomOther
    /\ echo' = <<>>
    /\ before' = [points |-> points, units |-> Len(units)]
    /\ UNCHANGED << main, lock, wire, sink, sampled, acquired, wrote, rvars, bvars >>

\* an input event that is no Wacom event: `_ => {}`
InputOther ==
    /\ main = "event_loop"
    /\ event' = OtherInput
    /\ echo' = <<>>
    /\ before' = [points |-> points, units |-> Len(units)]
    /\ UNCHANGED << main, points, last_framebuffer_point, units, lock, wire, sink,
                    sampled, acquired, wrote, rvars, bvars >>

\* a Mutex that lets anyone in
LockFree_always(l) == TRUE

\* Mutex::lock().await completes only when no guard is alive
LockFree(l) == l = 0

\* a send task gets the lock and starts `send(binary_msg)`
UnitLock ==
    \E t \in 1..Len(units) :
        /\ units[t].pc = "spawned"
        /\ LockFree(lock)
        /\ lock' = t
        /\ units' = [units EXCEPT ![t].pc = "writing"]
        /\ acquired' = Append(acquired, t)
        /\ UNCHANGED << main, points, last_framebuffer_point, wire, sink, event,
                        echo, before, sampled, wrote, rvars, bvars >>

\* the guard of a unit that ended not being dropped
LockAfterUnit_held(l) == l

\* the MutexGuard is a temporary of the send statement: it is dropped when the
\* statement ends, also when unwrap unwinds
LockAfterUnit(l) == 0

\* the send completes: the frame is on the wire and the guard is dropped
UnitSendOk ==
    \E t \in 1..Len(units) :
        /\ units[t].pc = "writing"
        /\ sink = "open"
        /\ wire' = Append(wire, units[t].frame)
        /\ wrote' = Append(wrote, t)
        /\ units' = [units EXCEPT ![t].pc = "sent"]
        /\ lock' = LockAfterUnit(lock)
        /\ UNCHANGED << main, points, last_framebuffer_point, sink, event, echo,
                        before, sampled, acquired, rvars, bvars >>

\* the send returns Err: unwrap panics in the send task, which ends
UnitSendErr ==
    \E t \in 1..Len(units) :
        /\ units[t].pc = "writing"
        /\ sink = "closed"
        /\ units' = [units EXCEPT ![t].pc = "failed"]
        /\ lock' = LockAfterUnit(lock)
        /\ UNCHANGED << main, points, last_framebuffer_point, wire, sink, event,
                        echo, before, sampled, acquired, wrote, rvars, bvars >>

\* the connection is lost: every later send returns Err
SinkClose ==
    /\ sink = "open"
    /\ sink' = "closed"
    /\ UNCHANGED << main, points, last_framebuffer_point, units, lock, wire, event,
                    echo, before, sampled, acquired, wrote, rvars, bvars >>

NextSend ==
    \/ MainSubscribe
    \/ PenDraw
    \/ PenOther
    \/ InputOther
    \/ UnitLock
    \/ UnitSendOk
    \/ UnitSendErr
    \/ SinkClose

SpecSend == Init /\ [][NextSend]_vars

\* ------------------------------------------------------- subscriptions
\* the chunks the two Subscriptions are built from
Chunks == { ChunkCoordinates(0, 0), ChunkCoordinates(0, 1), ChunkCoordinates(1, 0) }

\* message.rs:192-197, self.chunk_coordinates.difference(&other.chunk_coordinates)
missing_from_other(self, other) == self.chunk_coordinates \ other.chunk_coordinates

missing_from_self_same_side(self, other) == self.chunk_coordinates \ other.chunk_coordinates

\* message.rs:199-204, other.chunk_coordinates.difference(&self.chunk_coordinates)
missing_from_self(self, other) == other.chunk_coordinates \ self.chunk_coordinates

\* HashSet::iter: every element once; the order follows the hashes, which are
\* keyed by the RandomState of the HashSet instance and not by its elements
IterOrders(set) ==
    { o \in [1..Cardinality(set) -> set] :
        \A i, j \in 1..Cardinality(set) : i # j => o[i] # o[j] }

\* postcard::to_allocvec(&Message::Subscribe(s)): the discriminant, then the
\* chunks as a sequence in the order the HashSet iterates them
to_allocvec_subscribe(order) == [discriminant |-> 1, seq |-> order]

\* two Subscription values built from any chunks, each in a HashSet of its own
InitSub ==
    /\ ReadInit
    /\ SendInit
    /\ subA \in { Subscription(c) : c \in SUBSET Chunks }
    /\ subB \in { Subscription(c) : c \in SUBSET Chunks }
    /\ diffs = None
    /\ encoded = None

\* the difference methods called on the two values, both ways round
MissingFrom ==
    /\ diffs = None
    /\ diffs' = Some([a_other_b |-> missing_from_other(subA, subB),
                      b_other_a |-> missing_from_other(subB, subA),
                      a_other_a |-> missing_from_other(subA, subA),
                      a_self_b |-> missing_from_self(subA, subB)])
    /\ UNCHANGED << rvars, svars, subA, subB, encoded >>

\* Subscribe(subA) and Subscribe(subB) encoded, as blanke_ark.rs:173-176 does
\* for its one-chunk Subscription
EncodeSubscribe ==
    /\ encoded = None
    /\ \E oa \in IterOrders(subA.chunk_coordinates),
          ob \in IterOrders(subB.chunk_coordinates) :
           encoded' = Some([a |-> to_allocvec_subscribe(oa),
                            b |-> to_allocvec_subscribe(ob)])
    /\ UNCHANGED << rvars, svars, subA, subB, diffs >>

NextSub == MissingFrom \/ EncodeSubscribe

SpecSub == InitSub /\ [][NextSub]_vars

\* ================================================================ claims
\* the draw_line calls among framebuffer calls, and the refreshes among them
DrawLines(o) == SelectSeq(o, LAMBDA c : c.call = "draw_line")
Refreshes(o) == SelectSeq(o, LAMBDA c : c.call = "partial_refresh")
\* the drawn segments, as pairs of pixel points
Segments(o) == [k \in 1..Len(DrawLines(o)) |-> << DrawLines(o)[k].start, DrawLines(o)[k].end >>]

\* the DrawMessage the last item carried, when it decoded to one
IsDraw(msg) ==
    /\ msg.ws = "Binary"
    /\ from_bytes(msg.data).ok
    /\ from_bytes(msg.data).variant = "Draw"
DrawOf(msg) == from_bytes(msg.data).value
IsStepDraw(msg) == IsStep(msg) /\ StepOf(msg).action = "Draw"
IsStepEnd(msg) == IsStep(msg) /\ StepOf(msg).action = "End"
IsKind(msg, tag) == IsDraw(msg) /\ DrawOf(msg).tag = tag

\* the point the receiver holds for id
RecordedPoint(id) ==
    IF maybe_last_step_id = Some(id) THEN maybe_last_step_coords ELSE None

\* C1: a Draw(id, point) handled while id has a recorded point P0 (the point of
\* the most recent earlier Draw of id, no End(id) since) yields exactly one
\* Line, from P0 to point, also when steps of other ids came in between.
C1_DrawExtendsRecordedPoint ==
    (IsStepDraw(item) /\ pre.anchor[StepOf(item).id].some) =>
        DrawLines(ops) =
            << FbDrawLine(Point2(pre.anchor[StepOf(item).id].value),
                          Point2(StepOf(item).point), AsU32(StepOf(item).width)) >>

\* C2: a Draw(id, point) for an id without a recorded point yields no
\* primitive, and after every Draw(id, point) the recorded point of id is point.
C2_FirstDrawOnlyAnchors ==
    IsStepDraw(item) =>
        /\ (~pre.anchor[StepOf(item).id].some => ops = <<>>)
        /\ RecordedPoint(StepOf(item).id) = Some(StepOf(item).point)

\* a first Draw of one id handled while a point of another id is held
C2_Witness ==
    /\ IsStepDraw(item)
    /\ ~pre.anchor[StepOf(item).id].some
    /\ pre.coords.some /\ pre.id.some /\ pre.id.value # StepOf(item).id
    /\ ops = <<>>
    /\ RecordedPoint(StepOf(item).id) = Some(StepOf(item).point)

\* C3: End(id) yields no primitive, leaves no recorded point for id, and is a
\* silent no-op for the receiver (so a second End(id), or an End of an id never
\* drawn, can be applied and changes nothing): the read task goes on listening.
C3_EndIsSilentNoOp ==
    IsStepEnd(item) =>
        /\ ops = <<>>
        /\ RecordedPoint(StepOf(item).id) = None
        /\ task = "listening"

\* C4: after End(id) the receiver keeps processing inbound messages (a further
\* Draw step can be received), and a Draw of an id whose point was consumed by
\* an End starts a new stroke: it draws no Line.
C4_ReceiverGoesOnAfterEnd ==
    /\ (IsStepEnd(item) /\ stream = "open") => ENABLED RecvStepDraw
    /\ (IsStepDraw(item) /\ ~pre.anchor[StepOf(item).id].some) => DrawLines(ops) = <<>>

\* the streamed stroke so far: the points of its Draw steps and all its calls
StrokeDraws == SelectSeq(stroke, LAMBDA e : e.step.action = "Draw")
StrokePoints == [k \in 1..Len(StrokeDraws) |-> StrokeDraws[k].step.point]
StrokeOps == Concat([k \in 1..Len(stroke) |-> stroke[k].ops])

\* C5: the streaming form Draw{id,p0}, Draw{id,p1}, Draw{id,p2}, End{id} of a
\* stroke and the batch form Path{points:[p0,p1,p2]} produce the same ordered
\* Line segments, (p0 to p1) then (p1 to p2); stated for every streamed stroke
\* of up to MaxStroke steps and the Path of its points.
C5_StreamedStrokeMatchesPath ==
    stroke # <<>> =>
        /\ Segments(StrokeOps) =
               Segments(PathOps(Path(StrokePoints, F32(2, 0), Black)))
        /\ Segments(StrokeOps) =
               [k \in 1..(Len(StrokePoints) - 1) |->
                   << Point2(StrokePoints[k]), Point2(StrokePoints[k + 1]) >>]

\* a stroke of three different points, streamed and ended
C5_Witness ==
    /\ Len(stroke) = 4
    /\ stroke[4].step.action = "End"
    /\ Len(StrokePoints) = 3
    /\ Cardinality({ StrokePoints[k] : k \in 1..3 }) = 3
    /\ Len(Segments(StrokeOps)) = 2

\* C6: an inbound Path with n >= 1 points yields exactly n-1 Lines, one per
\* consecutive pair of points in order (none for n = 1, which is no error), and
\* leaves the stroke reconstruction state as it was.
C6_PathYieldsConsecutivePairs ==
    (IsKind(item, "Path") /\ Len(DrawOf(item).points) >= 1) =>
        /\ DrawLines(ops) =
               [k \in 1..(Len(DrawOf(item).points) - 1) |->
                   FbDrawLine(Point2(DrawOf(item).points[k]),
                              Point2(DrawOf(item).points[k + 1]),
                              AsU32(DrawOf(item).width))]
        /\ task = "listening"
        /\ maybe_last_step_coords = pre.coords
        /\ maybe_last_step_id = pre.id

\* a Path of three or more points handled while a step point is held
C6_Witness ==
    /\ IsKind(item, "Path")
    /\ Len(DrawOf(item).points) >= 3
    /\ Len(DrawLines(ops)) = Len(DrawOf(item).points) - 1
    /\ pre.coords.some
    /\ maybe_last_step_coords = pre.coords

\* the Composite of the scenario
ScenarioComposite ==
    CompositeDrawMessage(<< Path(<< G(0, 0), G(1, 1) >>, F32(2, 0), Black),
                            Line(G(2, 2), G(3, 3), F32(2, 0), Black) >>)

\* C7: Composite([Path[(0,0),(1,1)], Line (2,2)->(3,3)]) yields the two Lines
\* in order and then exactly one refresh; every Composite causes exactly one
\* refresh, issued after all its messages were drawn.
C7_CompositeRefreshesOnce ==
    IsKind(item, "Composite") =>
        /\ Len(Refreshes(ops)) = 1
        /\ ops[Len(ops)] = FbRefreshScreen
        /\ DrawOf(item) = ScenarioComposite =>
               Segments(ops) = << << Point2(G(0, 0)), Point2(G(1, 1)) >>,
                                  << Point2(G(2, 2)), Point2(G(3, 3)) >> >>

RECURSIVE StandaloneOps(_, _, _)
\* the calls the messages cause when each is received on its own, one after
\* the other, starting with the Options c and i
StandaloneOps(msgs, c, i) ==
    IF msgs = <<>> THEN <<>>
    ELSE LET r == DrawArm(Head(msgs), c, i)
         IN  r.ops \o StandaloneOps(Tail(msgs), r.coords, r.id)

\* C8: Composite(msgs) yields, in order, the primitives each contained message
\* yields when received on its own, whatever its kind, a nested Composite
\* included.
C8_CompositeIsUnionOfItems ==
    IsKind(item, "Composite") =>
        DrawLines(ops) = DrawLines(StandaloneOps(DrawOf(item).msgs, pre.coords, pre.id))

\* the calls that draw something
Primitives(o) == SelectSeq(o, LAMBDA c : c.call # "partial_refresh")

\* C9: an inbound Line yields exactly that Line, an inbound Dot exactly that
\* Dot, and neither changes the recorded last step point and id.
C9_LineAndDotYieldThemselves ==
    /\ IsKind(item, "Line") =>
           Primitives(ops) = << FbDrawLine(Point2(DrawOf(item).from),
                                           Point2(DrawOf(item).to),
                                           AsU32(DrawOf(item).width)) >>
    /\ IsKind(item, "Dot") =>
           /\ Len(Primitives(ops)) = 1
           /\ Primitives(ops)[1].start = Point2(DrawOf(item).coordinates)
    /\ (IsKind(item, "Line") \/ IsKind(item, "Dot")) =>
           /\ maybe_last_step_coords = pre.coords
           /\ maybe_last_step_id = pre.id

\* C10: a binary frame that fails to decode is dropped and the read loop goes
\* on: the task is still listening, so later frames are decoded and processed.
C10_BadFrameIsDropped ==
    (item.ws = "Binary" /\ ~from_bytes(item.data).ok) =>
        /\ ops = <<>>
        /\ task = "listening"
        /\ stream = "open" => ENABLED RecvPath

\* C15: closing the inbound channel terminates the read loop: once the stream
\* has ended the read task eventually stops listening; a task that was still
\* listening ends normally ("finished", no panic) and handles no further item.
C15_CloseEndsReadLoop ==
    /\ (stream = "closed") ~> (task # "listening")
    /\ [][stream = "closed" =>
            /\ ops' = <<>>
            /\ item' \in { item, StreamNone }
            /\ task' \in { task, "finished" }]_vars

\* the stream ended under a listening task, which then finished
C15_Witness ==
    /\ stream = "closed"
    /\ task = "finished"
    /\ item = StreamNone

\* the framebuffer color a wire Color stands for: BLACK exactly for rgb(0,0,0)
IsBlack(color) == color = RGB(0, 0, 0)

\* C18: the Line drawn for a Draw step has the width and the color the incoming
\* step carries, not those of the step that recorded the anchor point.
C18_StepLineUsesIncomingStyle ==
    (IsStepDraw(item) /\ DrawLines(ops) # <<>>) =>
        /\ DrawLines(ops)[1].width = AsU32(StepOf(item).width)
        /\ (DrawLines(ops)[1].color = "BLACK") <=> IsBlack(StepOf(item).color)

\* C19: no Line joins points of two different PathIds: a Line drawn for a
\* Draw(id, point) starts at the point of the latest earlier Draw of the same id
\* and ends at point, and there is at most one.
C19_LinesStayWithinOneId ==
    (IsStepDraw(item) /\ DrawLines(ops) # <<>>) =>
        /\ Len(DrawLines(ops)) = 1
        /\ pre.anchor[StepOf(item).id].some
        /\ DrawLines(ops)[1].start = Point2(pre.anchor[StepOf(item).id].value)
        /\ DrawLines(ops)[1].end = Point2(StepOf(item).point)

\* a Draw step of one id drew a Line while the other id has a point recorded too
C19_Witness ==
    /\ IsStepDraw(item)
    /\ Len(DrawLines(ops)) = 1
    /\ \E other \in PathIds : other # StepOf(item).id /\ pre.anchor[other].some
    /\ pre.anchor[StepOf(item).id].value # StepOf(item).point

\* ------------------------------------------------------- the sending side
\* the Path a unit's frame carries
UnitPath(u) == from_bytes(u.frame.data).value
\* the points of all Paths handed to send tasks, in spawn order
SpawnedPoints == Concat([k \in 1..Len(units) |-> UnitPath(units[k]).points])
\* the units that are at pc
UnitsAt(pc) == { t \in 1..Len(units) : units[t].pc = pc }
IsSubscribeFrame(f) == from_bytes(f.data).variant = "Subscribe"
IsDrawFrame(f) == from_bytes(f.data).variant = "Draw"

\* C11: when a gesture ends with at least one buffered point, exactly one
\* Draw(Path) is emitted, holding exactly the buffered samples in sampling
\* order, and the buffer is empty afterwards; with an empty buffer nothing is
\* emitted; no Path is empty and no sample is in two Paths (the Paths emitted
\* so far and the buffer together are the samples taken, each once, in order).
C11_GestureEndEmitsBufferOnce ==
    /\ event = WacomOther =>
           /\ points = <<>>
           /\ IF before.points # <<>>
              THEN /\ Len(units) = before.units + 1
                   /\ units[Len(units)].frame =
                          Binary(MessageDraw(Path(before.points, F32(2, 0), Black)))
              ELSE Len(units) = before.units
    /\ \A k \in 1..Len(units) : UnitPath(units[k]).points # <<>>
    /\ SpawnedPoints \o points = [k \in 1..Len(sampled) |-> CurrentPoint(sampled[k])]

\* a second gesture of two samples has just ended
C11_Witness ==
    /\ event = WacomOther
    /\ Len(before.points) = 2
    /\ before.points[1] # before.points[2]
    /\ Len(units) = 2
    /\ points = <<>>

\* C12: at most one send unit writes to the outbound channel at a time: a unit
\* writes only while it holds the lock, gives it up when its one Message is
\* written (or failed), and writes one Message only.
C12_OneWriterAtATime ==
    /\ Cardinality(UnitsAt("writing")) <= 1
    /\ \A t \in 1..Len(units) :
           /\ units[t].pc = "writing" => lock = t
           /\ units[t].pc \in { "sent", "failed" } => lock # t
           /\ Len(SelectSeq(wrote, LAMBDA u : u = t)) =
                  (IF units[t].pc = "sent" THEN 1 ELSE 0)
    /\ Len(wrote) = Len(SelectSeq(wire, IsDrawFrame))

\* one unit is writing while another one waits for the lock
C12_Witness ==
    /\ UnitsAt("writing") # {}
    /\ UnitsAt("spawned") # {}
    /\ lock \in UnitsAt("writing")

\* C13: the peer sends exactly one Subscribe over the connection, and it is
\* fully written before any Draw message is written (or any send task exists).
C13_OneSubscribeFirst ==
    /\ Len(SelectSeq(wire, IsSubscribeFrame)) <= 1
    /\ main = "event_loop" => Len(SelectSeq(wire, IsSubscribeFrame)) = 1
    /\ (units # <<>> \/ \E k \in 1..Len(wire) : IsDrawFrame(wire[k])) =>
           /\ wire # <<>>
           /\ wire[1] = SubscribeFrame

\* the Subscribe and then a Path are on the wire
C13_Witness ==
    /\ Len(wire) >= 2
    /\ IsSubscribeFrame(wire[1])
    /\ IsDrawFrame(wire[2])

\* C14: a send failure is fatal to that send unit only: the read task is as it
\* was, the lock is released, and a unit still waiting can get the lock and
\* attempt its write.
C14_SendFailureIsLocal ==
    /\ [](UnitsAt("failed") # {} =>
            /\ task = "listening"
            /\ main = "event_loop"
            /\ lock \notin UnitsAt("failed")
            /\ (UnitsAt("spawned") # {} /\ UnitsAt("writing") = {}) => ENABLED UnitLock)
    /\ [][UnitsAt("failed")' # UnitsAt("failed") =>
              /\ UNCHANGED << rvars, main, points, last_framebuffer_point, wire >>
              /\ lock' = 0
              /\ \A t \in 1..Len(units) :
                     units'[t].pc # units[t].pc => units'[t].pc = "failed"]_vars

\* after one unit failed, another one got the lock and is attempting its write
C14_Witness ==
    /\ UnitsAt("failed") # {}
    /\ UnitsAt("writing") # {}
    /\ lock \in UnitsAt("writing")

\* C20 as claimed: Paths are written in the order their gestures ended (the
\* order the units were spawned in).
C20_WrittenInGestureOrder ==
    \A i, j \in 1..Len(wrote) : i < j => wrote[i] < wrote[j]

\* C20 as amended: Paths are handed to send tasks in the order their gestures
\* ended and are written, each at most once, in the order in which the send
\* tasks acquire the lock, whatever the order the gestures ended in.
C20_WrittenInLockOrder ==
    /\ wrote = SelectSeq(acquired, LAMBDA t : units[t].pc = "sent")
    /\ SelectSeq(wire, IsDrawFrame) = [k \in 1..Len(wrote) |-> units[wrote[k]].frame]
    /\ \A i, j \in 1..Len(acquired) : i # j => acquired[i] # acquired[j]
    /\ SpawnedPoints \o points = [k \in 1..Len(sampled) |-> CurrentPoint(sampled[k])]

\* the Path of the second gesture was written before the Path of the first
C20_Witness ==
    /\ Len(wrote) = 2
    /\ wrote[1] > wrote[2]
    /\ units[wrote[1]].frame # units[wrote[2]].frame

\* ------------------------------------------------------- subscriptions
\* C16: A.missing_from_other(B) is the chunks of A that are not in B,
\* A.missing_from_other(A) is empty, A.missing_from_self(B) is
\* B.missing_from_other(A), and the two differences together are the
\* symmetric difference of A and B.
C16_MissingFromIsSetDifference ==
    diffs # None =>
        LET A == subA.chunk_coordinates
            B == subB.chunk_coordinates
            d == diffs.value
        IN  /\ \A c \in Chunks : c \in d.a_other_b <=> (c \in A /\ c \notin B)
            /\ d.a_other_b \subseteq Chunks
            /\ d.a_other_a = {}
            /\ d.a_self_b = d.b_other_a
            /\ d.a_other_b \cup d.b_other_a =
                   { c \in Chunks : (c \in A) # (c \in B) }

\* differences taken of two overlapping Subscriptions, neither within the other
C16_Witness ==
    /\ diffs # None
    /\ diffs.value.a_other_b # {}
    /\ diffs.value.b_other_a # {}
    /\ subA.chunk_coordinates \cap subB.chunk_coordinates # {}

\* C17: encoding is deterministic: equal Subscribe(Subscription) values, also
\* ones of two or more chunks, encode to the same bytes, chunks in the same
\* order.
C17_EqualValuesEncodeEqually ==
    (encoded # None /\ subA = subB) => encoded.value.a = encoded.value.b

\* ------------------------------------------------------- the local echo
\* C21: every non-Draw pen event resets the last drawn point, so the first
\* Draw sample of a gesture draws nothing locally and every other Draw sample
\* draws exactly one line, from the sample before it in the same gesture; no
\* line joins the last sample of a gesture to the first sample of the next.
C21_EchoJoinsSamplesOfOneGesture ==
    /\ event.input = "WacomDraw" =>
           /\ event.position = sampled[Len(sampled)]
           /\ last_framebuffer_point = Some(EndPoint(event.position))
           /\ echo = IF before.points = <<>>
                     THEN <<>>
                     ELSE << FbDrawLine(EndPoint(sampled[Len(sampled) - 1]),
                                        EndPoint(event.position), 2),
                             FbRefreshRegion(EndPoint(sampled[Len(sampled) - 1]),
                                             EndPoint(event.position), 2) >>
    /\ event.input = "WacomOther" =>
           /\ last_framebuffer_point = None
           /\ echo = <<>>
    /\ event.input = "Other" => echo = <<>>

\* the first sample of a second gesture, at another place than the last
\* sample of the first gesture, has just been handled
C21_Witness ==
    /\ event.input = "WacomDraw"
    /\ before.points = <<>>
    /\ Len(units) >= 1
    /\ Len(sampled) >= 2
    /\ sampled[Len(sampled) - 1] # sampled[Len(sampled)]
    /\ echo = <<>>

====
